---------------------------- MODULE Spec2Model ----------------------------
(***************************************************************************)
(* Model of the courtroom-debate session manager                           *)
(* (src/src/services/court_service.py) driving the LangGraph workflow of   *)
(* src/src/workflow.py, whose nodes are the role handlers of               *)
(* src/src/agent.py.                                                       *)
(*                                                                         *)
(* Names of the source are kept.  The Chinese string constants are written *)
(* in ASCII:                                                               *)
(*   roles   "Judge" = 法官, "Plaintiff" = 原告律师, "Defendant" = 被告律师  *)
(*   phases  "Preparing" = 准备阶段, "Opening" = 开庭阶段,                   *)
(*           "CrossExamination" = 交叉质证, "Closing" = 休庭小结             *)
(*                                                                         *)
(* The workflow executor is LangGraph's compiled graph.  workflow.py       *)
(* compiles it with graph.compile(): no checkpointer, no interrupt_before  *)
(* and no interrupt_after.  One app.invoke(input, config) therefore runs   *)
(* node after node along the edges until the END edge is taken, a node     *)
(* calls interrupt() (the run stops and invoke returns the channel values  *)
(* written so far), a node raises, or the recursion limit is exceeded.     *)
(* Each request is an asyncio task; app.invoke runs in a worker thread     *)
(* (asyncio.to_thread) while the event loop serves other tasks.            *)
(*                                                                         *)
(* Six specifications share the operators of the nodes, reducers and       *)
(* edges:                                                                  *)
(*   Spec          the service under concurrent requests (a run of the     *)
(*                 graph is one step, RunFrom);                            *)
(*   RunSpec       one run of app.invoke(initial_state), node by node;     *)
(*   NodeSpec      one node function called once on any CourtState;        *)
(*   SweepSpec     the service with one client, the clock and the sweeper; *)
(*   DestroySpec   the request tasks and the websockets of the sessions;   *)
(*   SweepFairSpec one client, the websockets, the clock and the sweeper,  *)
(*                 under the fairness of the event loop.                   *)
(***************************************************************************)
EXTENDS Naturals, Integers, Sequences, FiniteSets, TLC

\* ------------------------------------------------------------------ bounds
\* Request tasks that may be in flight at once.
MaxTasks == 2
\* Sessions ever created (session ids are fresh uuids, never reused).
MaxSessions == 2

\* LangGraph's default recursion_limit: self.config sets only thread_id, so a
\* run that would start a 26th superstep raises GraphRecursionError.
RecursionLimit == 25

\* Hours the clock is followed for.
MaxTime == 5

\* _cleanup_expired_sessions: a session is expired when its last activity is
\* more than 10800 s (3 hours) old; the sweeper sleeps 3600 s (1 hour)
\* between sweeps.
IdleThreshold == 3
SweepPeriod == 1

Tasks == 1..MaxTasks
SessionIds == 1..MaxSessions
NoTask == 0

\* The websockets that clients may open, and who may run cleanup_session:
\* a request task (the DELETE route) or the sweeper task.
MaxObservers == 1
Observers == 1..MaxObservers
Sweeper == MaxTasks + 1
Destroyers == Tasks \cup {Sweeper}

\* ------------------------------------------------------------------ data
CourtRole == {"Plaintiff", "Defendant", "Judge"}
NoRole == "None"
HumanRoles == CourtRole \cup {NoRole}

\* What a caller may send as human content.
Contents == {"text1", "text2"}

\* response.content of the model's decision call in judge_should_continue: a
\* string, written as the sequence of its characters.
Responses ==
    { <<"e", "n", "d">>,
      <<" ", "E", "N", "D", "\n">>,
      <<"E", "n", "d", ".">>,
      <<"c", "o", "n", "t", "i", "n", "u", "e">>,
      <<"C", "o", "n", "t", "i", "n", "u", "e", "\n">>,
      <<"e", "n", " ", "d">>,
      <<>> }

EndWord == <<"e", "n", "d">>
ContinueWord == <<"c", "o", "n", "t", "i", "n", "u", "e">>

\* str.strip(): leading and trailing whitespace is removed.
Whitespace == {" ", "\n", "\t"}

RECURSIVE StripLeft(_)
StripLeft(str) ==
    IF str # <<>> /\ Head(str) \in Whitespace THEN StripLeft(Tail(str)) ELSE str

RECURSIVE StripRight(_)
StripRight(str) ==
    IF str # <<>> /\ str[Len(str)] \in Whitespace
    THEN StripRight(SubSeq(str, 1, Len(str) - 1)) ELSE str

\* The response as it would be compared without strip().
StripNothing(str) == str

Strip(str) == StripRight(StripLeft(str))

\* str.lower(), on the letters the responses are written with.
LowerChar(c) ==
    CASE c = "C" -> "c" [] c = "D" -> "d" [] c = "E" -> "e" [] c = "I" -> "i"
      [] c = "N" -> "n" [] c = "O" -> "o" [] c = "T" -> "t" [] c = "U" -> "u"
      [] OTHER -> c

Lower(str) == [i \in 1..Len(str) |-> LowerChar(str[i])]

\* CourtSession.state before initialize has assigned it (None).
NoneState ==
    [phase |-> "unset", messages |-> <<>>, speaker |-> "",
     human_role |-> NoRole, rounds |-> 0]

StateIsNone(st) == st.phase = "unset"

\* initial_state of CourtSession.initialize
InitialState(hr) ==
    [phase |-> "Preparing", messages |-> <<>>, speaker |-> "",
     human_role |-> hr, rounds |-> 0]

\* ChatMessage(content=response.content, name="X(role)", role="assistant")
ChatMsg(sender, content) == [name |-> sender, kind |-> "Chat", content |-> content]
\* HumanMessage(content=user_input, name="X(role)")
HumanMsg(sender, content) == [name |-> sender, kind |-> "Human", content |-> content]

\* ------------------------------------------------------------- the nodes
\* A node returns [kind, upd]: kind "update" with the partial state upd (a
\* record of the keys it assigns; "messages" is the list handed to the
\* add_messages reducer), kind "interrupt" when it calls interrupt() with no
\* resume value, or kind "same" when its guard returns the state it was given
\* (every key is written back with the value it already has; add_messages
\* merges messages by id, so nothing changes).
\* What interrupt() has to return: a resume value, or none.
NoResume == "NoResume"

Same == [kind |-> "same", upd |-> [messages |-> <<>>]]
Interrupt == [kind |-> "interrupt", upd |-> [messages |-> <<>>]]
Update(u) == [kind |-> "update", upd |-> u]

\* debate_start as it would be without its announcement.
debate_start_silent(st) ==
    Update([phase |-> "Opening",
            messages |-> <<>>,
            speaker |-> "Plaintiff",
            rounds |-> 0])

debate_start(st) ==
    Update([phase |-> "Opening",
            messages |-> <<ChatMsg("Judge", "opening")>>,
            speaker |-> "Plaintiff",
            rounds |-> 0])

judge_summary(st, resume) ==
    IF st.speaker # "Judge" THEN Same
    ELSE IF st.human_role = "Judge"
    THEN IF resume = NoResume THEN Interrupt
         ELSE Update([messages |-> <<HumanMsg("Judge", resume)>>,
                      speaker |-> "Plaintiff",
                      phase |-> "CrossExamination"])
    ELSE Update([messages |-> <<ChatMsg("Judge", "generated")>>,
                 speaker |-> "Plaintiff",
                 phase |-> "CrossExamination"])

\* The verdict's generated message is built with role= instead of name=, so
\* it carries no name; the message of the human branch carries the name.
judge_verdict(st, resume) ==
    IF st.speaker # "Judge" THEN Same
    ELSE IF st.human_role = "Judge"
    THEN IF resume = NoResume THEN Interrupt
         ELSE Update([messages |-> <<HumanMsg("Judge", resume)>>,
                      phase |-> "Closing"])
    ELSE Update([messages |-> <<ChatMsg(NoRole, "generated")>>,
                 phase |-> "Closing"])

\* plaintiff_statement as it would be without its guard on the speaker.
plaintiff_statement_unguarded(st, resume) ==
    IF st.human_role = "Plaintiff"
    THEN IF resume = NoResume THEN Interrupt
         ELSE Update([messages |-> <<HumanMsg("Plaintiff", resume)>>,
                      speaker |-> "Defendant"])
    ELSE Update([messages |-> <<ChatMsg("Plaintiff", "generated")>>,
                 speaker |-> "Defendant"])

plaintiff_statement(st, resume) ==
    IF st.speaker # "Plaintiff" THEN Same
    ELSE IF st.human_role = "Plaintiff"
    THEN IF resume = NoResume THEN Interrupt
         ELSE Update([messages |-> <<HumanMsg("Plaintiff", resume)>>,
                      speaker |-> "Defendant"])
    ELSE Update([messages |-> <<ChatMsg("Plaintiff", "generated")>>,
                 speaker |-> "Defendant"])

\* plaintiff_argue as it would be if it handed the floor to the judge.
plaintiff_argue_to_judge(st, resume) ==
    IF st.speaker # "Plaintiff" THEN Same
    ELSE IF st.human_role = "Plaintiff"
    THEN IF resume = NoResume THEN Interrupt
         ELSE Update([messages |-> <<HumanMsg("Plaintiff", resume)>>,
                      speaker |-> "Judge"])
    ELSE Update([messages |-> <<ChatMsg("Plaintiff", "generated")>>,
                 speaker |-> "Judge"])

plaintiff_argue(st, resume) ==
    IF st.speaker # "Plaintiff" THEN Same
    ELSE IF st.human_role = "Plaintiff"
    THEN IF resume = NoResume THEN Interrupt
         ELSE Update([messages |-> <<HumanMsg("Plaintiff", resume)>>,
                      speaker |-> "Defendant"])
    ELSE Update([messages |-> <<ChatMsg("Plaintiff", "generated")>>,
                 speaker |-> "Defendant"])

defendant_reply(st, resume) ==
    IF st.speaker # "Defendant" THEN Same
    ELSE IF st.human_role = "Defendant"
    THEN IF resume = NoResume THEN Interrupt
         ELSE Update([messages |-> <<HumanMsg("Defendant", resume)>>,
                      speaker |-> "Judge"])
    ELSE Update([messages |-> <<ChatMsg("Defendant", "generated")>>,
                 speaker |-> "Judge"])

defendant_argue(st, resume) ==
    IF st.speaker # "Defendant" THEN Same
    ELSE IF st.human_role = "Defendant"
    THEN IF resume = NoResume THEN Interrupt
         ELSE Update([messages |-> <<HumanMsg("Defendant", resume)>>,
                      speaker |-> "Judge"])
    ELSE Update([messages |-> <<ChatMsg("Defendant", "generated")>>,
                 speaker |-> "Judge"])

\* The node registered as "judge_should_continue" is lambda state: state.
should_continue_node(st) == Same

\* The conditional edge's function.  It increments rounds in the dict it was
\* handed, which is the edge's own read of the channels: the increment is
\* used for the comparison below and is never written to the state.
judge_should_continue(st, response) ==
    LET rounds == st.rounds + 1
        decision == Lower(Strip(response))
    IN  IF rounds >= 3 THEN EndWord
        ELSE IF decision \notin {ContinueWord, EndWord} THEN ContinueWord
        ELSE decision

Nodes ==
    {"debate_start", "plaintiff_statement", "defendant_reply", "judge_summary",
     "plaintiff_argue", "defendant_argue", "judge_should_continue",
     "judge_verdict", "END"}

\* One call of a node by the executor.  resume is the value interrupt()
\* returns when the run was resumed with one, NoResume when interrupt() is
\* reached with none and raises.
RunNodeWith(node, st, resume) ==
    CASE node = "debate_start" -> debate_start(st)
      [] node = "plaintiff_statement" -> plaintiff_statement(st, resume)
      [] node = "defendant_reply" -> defendant_reply(st, resume)
      [] node = "judge_summary" -> judge_summary(st, resume)
      [] node = "plaintiff_argue" -> plaintiff_argue(st, resume)
      [] node = "defendant_argue" -> defendant_argue(st, resume)
      [] node = "judge_should_continue" -> should_continue_node(st)
      [] node = "judge_verdict" -> judge_verdict(st, resume)

\* A node called in a run that was started with an input: no resume value.
RunNodeFn(node, st) == RunNodeWith(node, st, NoResume)

\* graph.add_edge / add_conditional_edges of workflow.py; st is the state
\* after the node's own writes.
NextNode(node, st, response) ==
    CASE node = "debate_start" -> "plaintiff_statement"
      [] node = "plaintiff_statement" -> "defendant_reply"
      [] node = "defendant_reply" -> "judge_summary"
      [] node = "judge_summary" -> "plaintiff_argue"
      [] node = "plaintiff_argue" -> "defendant_argue"
      [] node = "defendant_argue" -> "judge_should_continue"
      [] node = "judge_should_continue" ->
            IF judge_should_continue(st, response) = EndWord
            THEN "judge_verdict" ELSE "judge_summary"
      [] node = "judge_verdict" -> "END"

\* The channel reducers of CourtState: messages is Annotated with
\* add_messages (append), every other key is overwritten.
ApplyUpdate(st, upd) ==
    [phase |-> IF "phase" \in DOMAIN upd THEN upd.phase ELSE st.phase,
     messages |-> st.messages \o upd.messages,
     speaker |-> IF "speaker" \in DOMAIN upd THEN upd.speaker ELSE st.speaker,
     human_role |-> st.human_role,
     rounds |-> IF "rounds" \in DOMAIN upd THEN upd.rounds ELSE st.rounds]

\* The role whose turn a node handles (the role its guard compares with).
NodeRole(node) ==
    CASE node \in {"judge_summary", "judge_verdict"} -> "Judge"
      [] node \in {"plaintiff_statement", "plaintiff_argue"} -> "Plaintiff"
      [] node \in {"defendant_reply", "defendant_argue"} -> "Defendant"
      [] OTHER -> NoRole

\* Whether the node calls the text-generation model when it runs on st.
CallsModel(node, st) ==
    \/ /\ NodeRole(node) # NoRole
       /\ st.speaker = NodeRole(node)
       /\ st.human_role # NodeRole(node)
    \/ /\ node = "judge_should_continue"
       /\ st.rounds + 1 < 3


\* ------------------------------------------------------------------ state
VARIABLES
    sessions,   \* CourtService.sessions: the ids in the registry
    allocated,  \* ids of the session objects that exist (uuid4 never repeats)
    sess,       \* the CourtSession objects, by id
    lock,       \* CourtSession._lock: the task holding it, or NoTask
    pc,         \* where each request task stands
    op,         \* the call each task is executing: [sid]
    res,        \* how each task's call ended
    hist,       \* per session: what the last run of the executor did
    run,        \* one run of app.invoke(initial_state), followed node by node
    clock,      \* datetime.now() in hours, and the state of the sweeper task
    call,       \* one call of one node function: its arguments and its result
    websocket_connections, \* CourtSession.websocket_connections, by session
    websockets, \* each websocket: where its endpoint handler stands
    cleanup     \* the cleanup_session call each destroyer is suspended in

vars == <<sessions, allocated, sess, lock, pc, op, res, hist, run, clock, call,
          websocket_connections, websockets, cleanup>>

wsVars == <<websocket_connections, websockets, cleanup>>

\* session_id = f"court_{uuid.uuid4().hex[:8]}": an id no session has had.
\* Which one is immaterial; the model takes the lowest.
FreshId == CHOOSE s \in SessionIds \ allocated :
              \A s2 \in SessionIds \ allocated : s <= s2

\* CourtSession.__init__
NewSession(hr) ==
    [human_role |-> hr,
     state |-> NoneState,
     requires_human_input |-> FALSE,
     pending_input_role |-> NoRole,
     last_activity |-> clock.now]

\* hist[s].pending_node: the node at which the session's last run raised
\* GraphInterrupt ("END" when it did not); hist[s].passes: how many times the
\* session's runs went through judge_should_continue; hist[s].last_call:
\* when the last create_session, advance_debate or submit_human_input on the
\* session was made or answered.
NoHist == [pending_node |-> "END", passes |-> 0, last_call |-> 0]

NoOp == [sid |-> 1]

\* A websocket no client has opened (or whose handler has returned).
NoSocket == [state |-> "none", sid |-> 1]

\* No cleanup_session in progress.  Otherwise: the session being destroyed,
\* the set iterator of the for loop over its websocket_connections (the size
\* the set had when the loop began and the websockets already yielded), and,
\* for the sweeper, the expired sessions still to destroy in this pass.
NoCleanup == [active |-> FALSE, sid |-> 1, size |-> 0, seen |-> {}, todo |-> <<>>]

\* No run is being followed.
\* No node function is being followed on its own.
NoCall ==
    [status |-> "none", node |-> "END", st |-> NoneState, resume |-> NoResume,
     out |-> Same, after |-> NoneState]

NoRun ==
    [status |-> "idle", node |-> "END", st |-> NoneState, steps |-> 0,
     passes |-> 0, starts |-> 0, answered |-> FALSE, response |-> <<>>]

ServiceInit ==
    /\ clock = [now |-> 0, sweeper |-> "off"]
    /\ sessions = {}
    /\ allocated = {}
    /\ sess = [s \in SessionIds |-> NewSession(NoRole)]
    /\ lock = [s \in SessionIds |-> NoTask]
    /\ pc = [t \in Tasks |-> "idle"]
    /\ op = [t \in Tasks |-> NoOp]
    /\ res = [t \in Tasks |-> "none"]
    /\ hist = [s \in SessionIds |-> NoHist]
    /\ websocket_connections = [s \in SessionIds |-> {}]
    /\ websockets = [o \in Observers |-> NoSocket]
    /\ cleanup = [d \in Destroyers |-> NoCleanup]

Init ==
    /\ ServiceInit
    /\ run = NoRun
    /\ call = NoCall

\* The lock as it would be if all sessions shared one.
LockFreeGlobal(s) == \A s2 \in SessionIds : lock[s2] = NoTask

\* The lock as it would be if "async with self._lock" never waited.
LockFreeNoLock(s) == TRUE

\* asyncio.Lock.locked() is False: "async with self._lock" may enter.
LockFree(s) == lock[s] = NoTask

\* create_session as it would be if it stored the session in the registry
\* before initializing it.
CreateSessionRegistersFirst(t, hr) ==
    /\ pc[t] = "idle"
    /\ allocated # SessionIds
    /\ LET s == FreshId IN
        /\ allocated' = allocated \cup {s}
        /\ sessions' = sessions \cup {s}
        /\ sess' = [sess EXCEPT ![s] = NewSession(hr)]
        /\ lock' = [lock EXCEPT ![s] = t]
        /\ op' = [op EXCEPT ![t] = [sid |-> s]]
        /\ hist' = [hist EXCEPT ![s] = [NoHist EXCEPT !.last_call = clock.now]]
    /\ clock' = [clock EXCEPT !.sweeper = IF @ = "off" THEN "sleeping" ELSE @]
    /\ pc' = [pc EXCEPT ![t] = "init_wait"]
    /\ UNCHANGED <<res, run, call, wsVars>>

\* ------------------------------------------------------------- create
\* CourtService.create_session up to the await inside initialize: the
\* session object is built, initialize takes the (new, free) lock, builds
\* initial_state and hands app.invoke(initial_state, config) to a worker
\* thread (asyncio.to_thread); the task waits for it holding the lock.
CreateSession(t, hr) ==
    /\ pc[t] = "idle"
    /\ allocated # SessionIds
    /\ LET s == FreshId IN
        /\ allocated' = allocated \cup {s}
        /\ sess' = [sess EXCEPT ![s] = NewSession(hr)]
        /\ lock' = [lock EXCEPT ![s] = t]
        /\ op' = [op EXCEPT ![t] = [sid |-> s]]
        /\ hist' = [hist EXCEPT ![s] = [NoHist EXCEPT !.last_call = clock.now]]
    /\ clock' = [clock EXCEPT !.sweeper = IF @ = "off" THEN "sleeping" ELSE @]
    /\ pc' = [pc EXCEPT ![t] = "init_wait"]
    /\ UNCHANGED <<sessions, res, run, call, wsVars>>

\* The outcomes of a run of the graph from node with channel values st,
\* after steps supersteps and passes passes through judge_should_continue:
\* the worker thread's final records.  Node after node runs, its writes are
\* applied and the edge out of it is taken, until the END edge is taken
\* ("done"), a node calls interrupt() ("interrupted": the values written so
\* far are returned), the model call of a node raises ("ModelError"), or the
\* recursion limit is exceeded ("RecursionError"); an exception carries no
\* state.  The model's answer to the decision prompt is any of Responses, at
\* every pass.
Failed(cause) ==
    [status |-> cause, node |-> "END", vals |-> NoneState, passes |-> 0]

NoResponse == <<>>

\* The nodes the edges out of node lead to, over the model's answers.
Successors(node, st) ==
    { NextNode(node, st, response) :
        response \in (IF node = "judge_should_continue"
                      THEN Responses ELSE {NoResponse}) }

RECURSIVE RunFrom(_, _, _, _)
RunFrom(node, st, steps, passes) ==
    LET r == RunNodeFn(node, st)
        st2 == IF r.kind = "update" THEN ApplyUpdate(st, r.upd) ELSE st
        passes2 == IF node = "judge_should_continue" THEN passes + 1 ELSE passes
    IN  IF steps >= RecursionLimit THEN {Failed("RecursionError")}
        ELSE IF r.kind = "interrupt"
        THEN {[status |-> "interrupted", node |-> node, vals |-> st, passes |-> passes]}
        ELSE (IF CallsModel(node, st) THEN {Failed("ModelError")} ELSE {})
             \cup
             UNION { IF nxt = "END"
                     THEN {[status |-> "done", node |-> "END",
                            vals |-> st2, passes |-> passes2]}
                     ELSE RunFrom(nxt, st2, steps + 1, passes2)
                     : nxt \in Successors(node, st2) }

\* app.invoke(initial_state, config), from the START edge, for each human
\* role of the initial state.
RunOutcomes ==
    [hr \in HumanRoles |-> RunFrom("debate_start", InitialState(hr), 0, 0)]

\* app.invoke(initial_state, config) ends in the worker thread and
\* initialize resumes.  The run reads and writes only its own channels (the
\* graph has no checkpointer), so nothing outside the thread sees its
\* intermediate states: the step takes one of the run's outcomes.  initialize
\* assigns self.state, leaves the lock, and create_session stores the session
\* in the registry.  When app.invoke raised, the lock is left and the
\* exception leaves create_session before the session is stored: the object
\* is dropped, and nothing keeps its id.
InitializeReturn(t) ==
    /\ pc[t] = "init_wait"
    /\ LET s == op[t].sid
       IN  \E out \in RunOutcomes[sess[s].human_role] :
           /\ lock' = [lock EXCEPT ![s] = NoTask]
           /\ IF out.status \in {"ModelError", "RecursionError"}
              THEN /\ res' = [res EXCEPT ![t] = out.status]
                   /\ sess' = [sess EXCEPT ![s] =
                                 [NewSession(NoRole) EXCEPT !.last_activity = 0]]
                   /\ hist' = [hist EXCEPT ![s] = NoHist]
                   /\ allocated' = allocated \ {s}
                   /\ op' = [op EXCEPT ![t] = NoOp]
                   /\ UNCHANGED sessions
              ELSE /\ sess' = [sess EXCEPT ![s].state = out.vals,
                                           ![s].last_activity = clock.now]
                   /\ sessions' = sessions \cup {s}
                   /\ hist' = [hist EXCEPT ![s] =
                                 [pending_node |-> IF out.status = "interrupted"
                                                   THEN out.node ELSE "END",
                                  passes |-> out.passes,
                                  last_call |-> clock.now]]
                   /\ res' = [res EXCEPT ![t] = "created"]
                   /\ UNCHANGED <<allocated, op>>
    /\ pc' = [pc EXCEPT ![t] = "done"]
    /\ UNCHANGED <<run, clock, call, wsVars>>

\* ------------------------------------------------------------- advance
\* app.invoke(None, config) on a graph compiled without a checkpointer: no
\* checkpoint exists to continue from and there is no input, so the call
\* raises (EmptyInputError) before any node runs.
InvokeNone(st) == [ok |-> FALSE, st |-> st]

\* app.invoke(Command(resume=content), config) on a graph compiled without
\* a checkpointer raises (RuntimeError) before any node runs.
InvokeResume(st, content) == [ok |-> FALSE, st |-> st]

\* advance_debate as it would be without its check for the closing phase.
AdvanceOutcomeNoEndCheck(se) ==
    IF se.requires_human_input
    THEN [res |-> "AwaitingHumanInput", se |-> se]
    ELSE IF StateIsNone(se.state)
    THEN [res |-> "NotInitialized", se |-> se]
    ELSE IF se.state.speaker # se.human_role
    THEN LET r == InvokeNone(se.state)
         IN  IF ~r.ok
             THEN [res |-> "AdvanceFailed", se |-> se]
             ELSE [res |-> "ok", se |-> [se EXCEPT !.state = r.st]]
    ELSE [res |-> "ok", se |-> se]

\* advance_debate as it would be if it emptied the transcript when it finds
\* the human's turn and has nothing to run.
AdvanceOutcomeRestarting(se) ==
    IF se.requires_human_input
    THEN [res |-> "AwaitingHumanInput", se |-> se]
    ELSE IF StateIsNone(se.state)
    THEN [res |-> "NotInitialized", se |-> se]
    ELSE IF se.state.phase = "Closing"
    THEN [res |-> "ok", se |-> se]
    ELSE IF se.state.speaker # se.human_role
    THEN [res |-> "AdvanceFailed", se |-> se]
    ELSE [res |-> "ok", se |-> [se EXCEPT !.state.messages = <<>>]]

\* advance_debate as it would be if it raised requires_human_input, and only
\* that, on finding the human's turn.
AdvanceOutcomeFlagOnly(se) ==
    IF se.requires_human_input
    THEN [res |-> "AwaitingHumanInput", se |-> se]
    ELSE IF StateIsNone(se.state)
    THEN [res |-> "NotInitialized", se |-> se]
    ELSE IF se.state.phase = "Closing"
    THEN [res |-> "ok", se |-> se]
    ELSE IF se.state.speaker # se.human_role
    THEN [res |-> "AdvanceFailed", se |-> se]
    ELSE [res |-> "ok", se |-> [se EXCEPT !.requires_human_input = TRUE]]

\* The body of CourtSession.advance_debate under the lock: the result and
\* the session it leaves.
AdvanceOutcome(se) ==
    IF se.requires_human_input
    THEN [res |-> "AwaitingHumanInput", se |-> se]
    ELSE IF StateIsNone(se.state)
    THEN [res |-> "NotInitialized", se |-> se]
    ELSE IF se.state.phase = "Closing"
    THEN [res |-> "ok", se |-> se]
    ELSE IF se.state.speaker # se.human_role
    THEN LET r == InvokeNone(se.state)
         IN  IF ~r.ok
             THEN [res |-> "AdvanceFailed", se |-> se]
             ELSE [res |-> "ok",
                   se |-> IF r.st.speaker = se.human_role
                          THEN [se EXCEPT !.state = r.st,
                                          !.last_activity = clock.now,
                                          !.requires_human_input = TRUE,
                                          !.pending_input_role = se.human_role]
                          ELSE [se EXCEPT !.state = r.st,
                                          !.last_activity = clock.now]]
    ELSE [res |-> "ok", se |-> se]

\* submit_human_input as it would be without its requires_human_input check.
SubmitOutcomeNoGuard(se, content) ==
    LET r == InvokeResume(se.state, content)
    IN  IF ~r.ok
        THEN [res |-> "SubmitFailed", se |-> se]
        ELSE [res |-> "ok",
              se |-> [se EXCEPT !.state = r.st,
                                !.requires_human_input = FALSE,
                                !.pending_input_role = NoRole]]

\* The body of CourtSession.submit_human_input under the lock: the result
\* and the session it leaves.
SubmitOutcome(se, content) ==
    IF ~se.requires_human_input
    THEN [res |-> "InvalidResumeState", se |-> se]
    ELSE IF StateIsNone(se.state)
    THEN [res |-> "NotInitialized", se |-> se]
    ELSE LET r == InvokeResume(se.state, content)
         IN  IF ~r.ok
             THEN [res |-> "SubmitFailed", se |-> se]
             ELSE [res |-> "ok",
                   se |-> [se EXCEPT !.state = r.st,
                                     !.requires_human_input = FALSE,
                                     !.pending_input_role = NoRole,
                                     !.last_activity = clock.now]]

\* The lookup as it would be if every id were found.
RegisteredAlways(s) == TRUE

\* session_id in self.sessions
Registered(s) == s \in sessions

\* CourtService.advance_debate: the registry lookup, then the call of
\* session.advance_debate().  "async with self._lock" enters at once when
\* the lock is free (asyncio.Lock.acquire does not yield then) and waits
\* otherwise.
CallAdvance(t, s) ==
    /\ pc[t] = "idle"
    /\ op' = [op EXCEPT ![t] = [sid |-> s]]
    /\ IF ~Registered(s)
       THEN /\ res' = [res EXCEPT ![t] = "SessionNotFound"]
            /\ pc' = [pc EXCEPT ![t] = "done"]
            /\ UNCHANGED lock
       ELSE /\ IF LockFree(s)
               THEN /\ lock' = [lock EXCEPT ![s] = t]
                    /\ pc' = [pc EXCEPT ![t] = "adv_body"]
               ELSE /\ pc' = [pc EXCEPT ![t] = "adv_lock"]
                    /\ UNCHANGED lock
            /\ UNCHANGED res
    /\ hist' = IF Registered(s)
               THEN [hist EXCEPT ![s].last_call = clock.now] ELSE hist
    /\ UNCHANGED <<sessions, allocated, sess, run, clock, call, wsVars>>

\* CourtService.submit_human_input: the registry lookup, then the call of
\* session.submit_human_input(content).  role is received and not used.
CallSubmit(t, s, role) ==
    /\ pc[t] = "idle"
    /\ op' = [op EXCEPT ![t] = [sid |-> s]]
    /\ IF ~Registered(s)
       THEN /\ res' = [res EXCEPT ![t] = "SessionNotFound"]
            /\ pc' = [pc EXCEPT ![t] = "done"]
            /\ UNCHANGED lock
       ELSE /\ IF LockFree(s)
               THEN /\ lock' = [lock EXCEPT ![s] = t]
                    /\ pc' = [pc EXCEPT ![t] = "sub_body"]
               ELSE /\ pc' = [pc EXCEPT ![t] = "sub_lock"]
                    /\ UNCHANGED lock
            /\ UNCHANGED res
    /\ hist' = IF Registered(s)
               THEN [hist EXCEPT ![s].last_call = clock.now] ELSE hist
    /\ UNCHANGED <<sessions, allocated, sess, run, clock, call, wsVars>>

\* A task waiting in "async with self._lock" of advance_debate or
\* submit_human_input is woken once the lock has been released.
AcquireLock(t) ==
    /\ pc[t] \in {"adv_lock", "sub_lock"}
    /\ LockFree(op[t].sid)
    /\ lock' = [lock EXCEPT ![op[t].sid] = t]
    /\ pc' = [pc EXCEPT ![t] = IF pc[t] = "adv_lock" THEN "adv_body" ELSE "sub_body"]
    /\ UNCHANGED <<sessions, allocated, sess, op, res, hist, run, clock, call, wsVars>>

AdvanceBody(t) ==
    /\ pc[t] = "adv_body"
    /\ LET s == op[t].sid
           out == AdvanceOutcome(sess[s])
       IN  /\ sess' = [sess EXCEPT ![s] = out.se]
           /\ res' = [res EXCEPT ![t] = out.res]
           /\ lock' = [lock EXCEPT ![s] = NoTask]
    /\ hist' = [hist EXCEPT ![op[t].sid].last_call = clock.now]
    /\ pc' = [pc EXCEPT ![t] = "done"]
    /\ UNCHANGED <<sessions, allocated, op, run, clock, call, wsVars>>

SubmitBody(t, content) ==
    /\ pc[t] = "sub_body"
    /\ LET s == op[t].sid
           out == SubmitOutcome(sess[s], content)
       IN  /\ sess' = [sess EXCEPT ![s] = out.se]
           /\ res' = [res EXCEPT ![t] = out.res]
           /\ lock' = [lock EXCEPT ![s] = NoTask]
    /\ hist' = [hist EXCEPT ![op[t].sid].last_call = clock.now]
    /\ pc' = [pc EXCEPT ![t] = "done"]
    /\ UNCHANGED <<sessions, allocated, op, run, clock, call, wsVars>>

\* get_session as it would be if it waited for the session's lock.
GetSessionLocked(t, s) ==
    /\ pc[t] = "idle"
    /\ Registered(s) => LockFree(s)
    /\ op' = [op EXCEPT ![t] = [sid |-> s]]
    /\ res' = [res EXCEPT ![t] = IF Registered(s) THEN "GetOk" ELSE "SessionNotFound"]
    /\ pc' = [pc EXCEPT ![t] = "done"]
    /\ UNCHANGED <<sessions, allocated, sess, lock, hist, run, clock, call, wsVars>>

\* CourtService.get_session: the registry lookup and to_dict().  Nothing is
\* awaited and the session's lock is not taken.
GetSession(t, s) ==
    /\ pc[t] = "idle"
    /\ op' = [op EXCEPT ![t] = [sid |-> s]]
    /\ res' = [res EXCEPT ![t] = IF Registered(s) THEN "GetOk" ELSE "SessionNotFound"]
    /\ pc' = [pc EXCEPT ![t] = "done"]
    /\ UNCHANGED <<sessions, allocated, sess, lock, hist, run, clock, call, wsVars>>

\* --------------------------------------------------------- cleanup_session
\* cleanup_session(session_id), from the point where its for loop over
\* session.websocket_connections asks the set iterator for the next
\* websocket, up to the next await that suspends it or to its end; for the
\* sweeper, the for loop over expired_sessions goes on to the next session.
\* The outcomes, as [status, it, regs, wss]:
\*   "awaiting": the iterator yielded a websocket, websocket.close() was
\*               called on it and is awaited;
\*   "finished": the loop ended, del self.sessions[session_id] was executed
\*               (and the sweeper's list is exhausted);
\*   "aborted":  an exception leaves cleanup_session: the set iterator finds
\*               the size of the set changed (RuntimeError), close() is
\*               called on a websocket that is already closed
\*               (RuntimeError), or the session is no longer in the
\*               registry at the del (KeyError).
\* The iterator yields the members of the set in an order the hash table
\* decides: any member not yet yielded.  regs is the registry and wss the
\* websockets as the preceding sessions of the pass have left them.
RECURSIVE CleanupOutcomes(_, _, _)
RECURSIVE CleanupStart(_, _, _)

\* cleanup_session is entered for the sessions of todo, one after the other;
\* one that is no longer in the registry is passed over.
CleanupStart(todo, regs, wss) ==
    IF todo = <<>>
    THEN {[status |-> "finished", it |-> NoCleanup, regs |-> regs, wss |-> wss]}
    ELSE IF Head(todo) \notin regs
    THEN CleanupStart(Tail(todo), regs, wss)
    ELSE CleanupOutcomes([active |-> TRUE,
                          sid |-> Head(todo),
                          size |-> Cardinality(websocket_connections[Head(todo)]),
                          seen |-> {},
                          todo |-> Tail(todo)],
                         regs, wss)

CleanupOutcomes(it, regs, wss) ==
    LET conn == websocket_connections[it.sid]
        Aborted == [status |-> "aborted", it |-> NoCleanup,
                    regs |-> regs, wss |-> wss]
    IN  IF Cardinality(conn) # it.size
        THEN {Aborted}
        ELSE IF conn \ it.seen # {}
        THEN {IF wss[w].state = "open"
              THEN [status |-> "awaiting",
                    it |-> [it EXCEPT !.seen = @ \cup {w}],
                    regs |-> regs,
                    wss |-> [wss EXCEPT ![w].state = "closed"]]
              ELSE Aborted : w \in conn \ it.seen}
        ELSE IF it.sid \notin regs
        THEN {Aborted}
        ELSE CleanupStart(it.todo, regs \ {it.sid}, wss)

\* The route DELETE /sessions/{id} (end_session): get_session, which raises
\* for an unknown id, then cleanup_session, which closes the session's
\* websockets and removes the session from the registry.  cleanup_session
\* takes no lock; for a session with no websocket attached it awaits
\* nothing.  The session object stays alive for the calls that already hold
\* it.
EndSession(t, s) ==
    /\ pc[t] = "idle"
    /\ op' = [op EXCEPT ![t] = [sid |-> s]]
    /\ IF ~Registered(s)
       THEN /\ res' = [res EXCEPT ![t] = "SessionNotFound"]
            /\ pc' = [pc EXCEPT ![t] = "done"]
            /\ UNCHANGED <<sessions, websockets, cleanup>>
       ELSE \E out \in CleanupStart(<<s>>, sessions, websockets) :
            /\ sessions' = out.regs
            /\ websockets' = out.wss
            /\ cleanup' = [cleanup EXCEPT ![t] = out.it]
            /\ IF out.status = "awaiting"
               THEN /\ pc' = [pc EXCEPT ![t] = "end_closing"]
                    /\ UNCHANGED res
               ELSE /\ pc' = [pc EXCEPT ![t] = "done"]
                    /\ res' = [res EXCEPT ![t] =
                                 IF out.status = "finished"
                                 THEN "Ended" ELSE "EndFailed"]
    /\ UNCHANGED <<allocated, sess, lock, hist, run, clock, call,
                   websocket_connections>>

\* The awaited websocket.close() of the route's cleanup_session returns and
\* the for loop goes on.
EndCloseReturn(t) ==
    /\ pc[t] = "end_closing"
    /\ \E out \in CleanupOutcomes(cleanup[t], sessions, websockets) :
            /\ sessions' = out.regs
            /\ websockets' = out.wss
            /\ cleanup' = [cleanup EXCEPT ![t] = out.it]
            /\ IF out.status = "awaiting"
               THEN UNCHANGED <<pc, res>>
               ELSE /\ pc' = [pc EXCEPT ![t] = "done"]
                    /\ res' = [res EXCEPT ![t] =
                                 IF out.status = "finished"
                                 THEN "Ended" ELSE "EndFailed"]
    /\ UNCHANGED <<allocated, sess, lock, op, hist, run, clock, call,
                   websocket_connections>>

\* ------------------------------------------------------ websocket_endpoint
\* A client opens the websocket of session s: get_session_object finds the
\* session and manager.connect awaits websocket.accept().  (For an unknown
\* id the websocket is closed with code 1008 and nothing is kept.)
Connect(o, s) ==
    /\ websockets[o].state = "none"
    /\ Registered(s)
    /\ websockets' = [websockets EXCEPT ![o] = [state |-> "accepting", sid |-> s]]
    /\ UNCHANGED <<sessions, allocated, sess, lock, pc, op, res, hist, run,
                   clock, call, websocket_connections, cleanup>>

\* accept() has returned: the websocket joins the set of the session object
\* the handler looked up, registered or not by now, and the handler goes on
\* to its receive loop.
Accepted(o) ==
    /\ websockets[o].state = "accepting"
    /\ websocket_connections' =
          [websocket_connections EXCEPT ![websockets[o].sid] = @ \cup {o}]
    /\ websockets' = [websockets EXCEPT ![o].state = "open"]
    /\ UNCHANGED <<sessions, allocated, sess, lock, pc, op, res, hist, run,
                   clock, call, cleanup>>

\* The client goes away, or the handler fails (get_session raises for a
\* session removed meanwhile): the except branches discard the websocket.
Disconnect(o) ==
    /\ websockets[o].state = "open"
    /\ websocket_connections' =
          [websocket_connections EXCEPT ![websockets[o].sid] = @ \ {o}]
    /\ websockets' = [websockets EXCEPT ![o] = NoSocket]
    /\ UNCHANGED <<sessions, allocated, sess, lock, pc, op, res, hist, run,
                   clock, call, cleanup>>

\* The handler of a websocket that cleanup_session has closed: its
\* receive_text raises and the except branch discards the websocket.
Closed(o) ==
    /\ websockets[o].state = "closed"
    /\ websocket_connections' =
          [websocket_connections EXCEPT ![websockets[o].sid] = @ \ {o}]
    /\ websockets' = [websockets EXCEPT ![o] = NoSocket]
    /\ UNCHANGED <<sessions, allocated, sess, lock, pc, op, res, hist, run,
                   clock, call, cleanup>>

\* The caller has its answer; the task is free for the next request.
Return(t) ==
    /\ pc[t] = "done"
    /\ pc' = [pc EXCEPT ![t] = "idle"]
    /\ res' = [res EXCEPT ![t] = "none"]
    /\ op' = [op EXCEPT ![t] = NoOp]
    /\ UNCHANGED <<sessions, allocated, sess, lock, hist, run, clock, call, wsVars>>

Next ==
    \E t \in Tasks :
        \/ \E hr \in HumanRoles : CreateSession(t, hr)
        \/ InitializeReturn(t)
        \/ \E s \in SessionIds : CallAdvance(t, s)
        \/ \E s \in SessionIds, role \in CourtRole : CallSubmit(t, s, role)
        \/ AcquireLock(t)
        \/ AdvanceBody(t)
        \/ \E content \in Contents : SubmitBody(t, content)
        \/ \E s \in SessionIds : GetSession(t, s)
        \/ \E s \in SessionIds : EndSession(t, s)
        \/ Return(t)

Spec == Init /\ [][Next]_vars

\* ------------------------------------------------- the periodic sweep
\* An hour passes (asyncio.sleep(3600) of the sweeper ends, if the sweeper
\* has been started by a first create_session).  The sweep that is due runs
\* before the next hour ends.
Tick ==
    /\ clock.now < MaxTime
    /\ clock.sweeper # "due"
    /\ clock' = [now |-> clock.now + SweepPeriod,
                 sweeper |-> IF clock.sweeper = "sleeping" THEN "due"
                             ELSE clock.sweeper]
    /\ UNCHANGED <<sessions, allocated, sess, lock, pc, op, res, hist, run, call, wsVars>>

\* An hour passes at the horizon of the clock: every timestamp is moved one
\* hour back instead (a timestamp already MaxTime old stays; MaxTime is
\* beyond the threshold, so what is expired and what is not is the same).
Earlier(time) == IF time = 0 THEN 0 ELSE time - SweepPeriod

TickAtHorizon ==
    /\ clock.now = MaxTime
    /\ clock.sweeper # "due"
    /\ clock' = [clock EXCEPT !.sweeper = IF @ = "sleeping" THEN "due" ELSE @]
    /\ sess' = [s \in SessionIds |->
                  [sess[s] EXCEPT !.last_activity = Earlier(@)]]
    /\ hist' = [s \in SessionIds |-> [hist[s] EXCEPT !.last_call = Earlier(@)]]
    /\ UNCHANGED <<sessions, allocated, lock, pc, op, res, run, call, wsVars>>

\* One pass of the loop of _cleanup_expired_sessions: every session whose
\* last_activity is more than the threshold old is handed to
\* cleanup_session, in the order of the registry (for one client creating
\* its sessions one after the other: the order of the ids).  No lock is
\* taken; a session with no websocket attached is removed without an await.
\* An exception of cleanup_session ends the pass (it is caught and printed
\* by the loop, which sleeps again).
Expired(s) == clock.now - sess[s].last_activity > IdleThreshold

RECURSIVE Ascending(_)
Ascending(S) ==
    IF S = {} THEN <<>>
    ELSE LET m == CHOOSE x \in S : \A y \in S : x <= y
         IN  <<m>> \o Ascending(S \ {m})

Sweep ==
    /\ clock.sweeper = "due"
    /\ \E out \in CleanupStart(Ascending({s \in sessions : Expired(s)}),
                               sessions, websockets) :
            /\ sessions' = out.regs
            /\ websockets' = out.wss
            /\ cleanup' = [cleanup EXCEPT ![Sweeper] = out.it]
            /\ clock' = [clock EXCEPT !.sweeper =
                           IF out.status = "awaiting"
                           THEN "closing" ELSE "sleeping"]
    /\ UNCHANGED <<allocated, sess, lock, pc, op, res, hist, run, call,
                   websocket_connections>>

\* The awaited websocket.close() of the sweeper's cleanup_session returns
\* and the pass goes on.
SweepCloseReturn ==
    /\ clock.sweeper = "closing"
    /\ \E out \in CleanupOutcomes(cleanup[Sweeper], sessions, websockets) :
            /\ sessions' = out.regs
            /\ websockets' = out.wss
            /\ cleanup' = [cleanup EXCEPT ![Sweeper] = out.it]
            /\ clock' = [clock EXCEPT !.sweeper =
                           IF out.status = "awaiting"
                           THEN "closing" ELSE "sleeping"]
    /\ UNCHANGED <<allocated, sess, lock, pc, op, res, hist, run, call,
                   websocket_connections>>

\* One client making its requests one after the other, the clock and the
\* sweeper.
Client == 1

SweepNext ==
    \/ \E hr \in HumanRoles : CreateSession(Client, hr)
    \/ InitializeReturn(Client)
    \/ \E s \in SessionIds : CallAdvance(Client, s)
    \/ \E s \in SessionIds, role \in CourtRole : CallSubmit(Client, s, role)
    \/ AdvanceBody(Client)
    \/ \E content \in Contents : SubmitBody(Client, content)
    \/ \E s \in SessionIds : EndSession(Client, s)
    \/ Return(Client)
    \/ Tick
    \/ Sweep

SweepSpec == Init /\ [][SweepNext]_vars

\* --------------------------------------- destruction and the websockets
\* The request tasks and the websockets, no sweeper: sessions are created for
\* a human plaintiff or with no human, advanced and ended while clients open
\* and drop websockets.
DestroyRoles == {NoRole, "Plaintiff"}

DestroyNext ==
    \/ \E t \in Tasks :
        \/ \E hr \in DestroyRoles : CreateSession(t, hr)
        \/ InitializeReturn(t)
        \/ \E s \in SessionIds : CallAdvance(t, s)
        \/ AcquireLock(t)
        \/ AdvanceBody(t)
        \/ \E s \in SessionIds : EndSession(t, s)
        \/ EndCloseReturn(t)
        \/ Return(t)
    \/ \E o \in Observers, s \in SessionIds : Connect(o, s)
    \/ \E o \in Observers : Accepted(o)
    \/ \E o \in Observers : Disconnect(o)
    \/ \E o \in Observers : Closed(o)

DestroySpec == Init /\ [][DestroyNext]_vars

\* One client creating sessions for a human plaintiff, the websockets, the
\* clock and the sweeper, with what the event loop guarantees: time passes,
\* the sweeper and the request task run when they are ready, an awaited
\* accept or close returns, the handler of a websocket that was closed runs.
\* What clients do (creating, connecting, going away) is left to them.
SweepFairNext ==
    \/ CreateSession(Client, "Plaintiff")
    \/ InitializeReturn(Client)
    \/ Return(Client)
    \/ \E o \in Observers, s \in SessionIds : Connect(o, s)
    \/ \E o \in Observers : Accepted(o)
    \/ \E o \in Observers : Disconnect(o)
    \/ \E o \in Observers : Closed(o)
    \/ Tick
    \/ TickAtHorizon
    \/ Sweep
    \/ SweepCloseReturn

SweepFairSpec ==
    /\ Init
    /\ [][SweepFairNext]_vars
    /\ WF_vars(Tick \/ TickAtHorizon)
    /\ WF_vars(Sweep)
    /\ WF_vars(SweepCloseReturn)
    /\ WF_vars(InitializeReturn(Client))
    /\ WF_vars(Return(Client))
    /\ \A o \in Observers : WF_vars(Accepted(o)) /\ WF_vars(Closed(o))


\* ------------------------------------------------- one run, node by node
\* app.invoke(initial_state, config) followed superstep by superstep: the
\* same nodes, reducers and edges as RunFrom, one node per step.
serviceVars == <<sessions, allocated, sess, lock, pc, op, res, hist, clock, call, wsVars>>

StartRun(hr) ==
    [status |-> "running", node |-> "debate_start", st |-> InitialState(hr),
     steps |-> 0, passes |-> 0, starts |-> 0, answered |-> FALSE,
     response |-> <<>>]

RunInit ==
    /\ ServiceInit
    /\ run \in {StartRun(hr) : hr \in HumanRoles}
    /\ call = NoCall

\* The node at run.node runs on the channel values run.st.  It calls
\* interrupt() and the run stops, or its writes are applied and the edge out
\* of it is taken; response is the model's answer when the edge function asks
\* for a decision.
RunNode(response) ==
    /\ run.status = "running"
    /\ run.steps < RecursionLimit
    /\ LET node == run.node
           r == RunNodeFn(node, run.st)
           st2 == IF r.kind = "update" THEN ApplyUpdate(run.st, r.upd) ELSE run.st
           asks == node = "judge_should_continue" /\ CallsModel(node, st2)
           nxt == NextNode(node, st2, response)
       IN  /\ response \in (IF asks THEN Responses ELSE {NoResponse})
           /\ run' = IF r.kind = "interrupt"
                     THEN [run EXCEPT !.status = "interrupted", !.answered = FALSE,
                                      !.response = NoResponse]
                     ELSE [status |-> IF nxt = "END" THEN "done" ELSE "running",
                           node |-> nxt,
                           st |-> st2,
                           steps |-> run.steps + 1,
                           passes |-> IF node = "judge_should_continue"
                                      THEN run.passes + 1 ELSE run.passes,
                           starts |-> IF node = "debate_start"
                                      THEN run.starts + 1 ELSE run.starts,
                           answered |-> asks,
                           response |-> response]
    /\ UNCHANGED serviceVars

\* The model call of the node raises: the exception ends the run.
RunModelFails ==
    /\ run.status = "running"
    /\ run.steps < RecursionLimit
    /\ CallsModel(run.node, run.st)
    /\ run' = [run EXCEPT !.status = "ModelError", !.answered = FALSE,
                          !.response = NoResponse]
    /\ UNCHANGED serviceVars

\* The run would start one superstep more than the recursion limit allows:
\* GraphRecursionError.
RunRecursionError ==
    /\ run.status = "running"
    /\ run.steps >= RecursionLimit
    /\ run' = [run EXCEPT !.status = "RecursionError", !.answered = FALSE,
                          !.response = NoResponse]
    /\ UNCHANGED serviceVars

RunNext ==
    \/ \E response \in Responses \cup {NoResponse} : RunNode(response)
    \/ RunModelFails
    \/ RunRecursionError

RunSpec == RunInit /\ [][RunNext]_vars


\* ------------------------------------------------ one node, called once
\* A node function applied to a value of CourtState, whatever the graph would
\* have handed it, with or without a resume value for its interrupt().
Phases == {"Preparing", "Opening", "CrossExamination", "Closing"}
MaxRounds == 2

CourtStates ==
    [phase : Phases,
     messages : {<<>>, <<ChatMsg("Judge", "opening")>>},
     speaker : CourtRole \cup {""},
     human_role : HumanRoles,
     rounds : 0..MaxRounds]

NodeInit ==
    /\ ServiceInit
    /\ run = NoRun
    /\ call \in {[status |-> "entered", node |-> n, st |-> st,
                  resume |-> NoResume, out |-> Same, after |-> st] :
                    n \in Nodes \ {"END"}, st \in CourtStates}

\* The node returns (or interrupts) and the executor applies what it wrote.
CallNode(resume) ==
    /\ call.status = "entered"
    /\ LET r == RunNodeWith(call.node, call.st, resume)
       IN  call' = [call EXCEPT
                      !.status = "returned",
                      !.resume = resume,
                      !.out = r,
                      !.after = IF r.kind = "update"
                                THEN ApplyUpdate(call.st, r.upd) ELSE call.st]
    /\ UNCHANGED <<sessions, allocated, sess, lock, pc, op, res, hist, run, clock,
                   wsVars>>

NodeNext == \E resume \in Contents \cup {NoResume} : CallNode(resume)

NodeSpec == NodeInit /\ [][NodeNext]_vars


\* ------------------------------------------------------------ properties
\* The task is inside the locked body of initialize, advance_debate or
\* submit_human_input of session s.
InBody(t, s) ==
    /\ pc[t] \in {"init_wait", "adv_body", "sub_body"}
    /\ op[t].sid = s

\* No call on session s is in progress.
Quiescent(s) ==
    \A t \in Tasks : pc[t] \in {"idle", "done"} \/ op[t].sid # s

\* The executor's last run on s stopped in interrupt() at a node of role R.
SuspendedFor(s, R) ==
    /\ hist[s].pending_node # "END"
    /\ NodeRole(hist[s].pending_node) = R

\* C1: for one session, at most one of initialize, advance_debate and
\* submit_human_input is inside its locked body at any moment; a second call
\* enters its body only after the first has left it.
C1_OneLockedBody ==
    \A s \in SessionIds : \A t1, t2 \in Tasks :
        (InBody(t1, s) /\ InBody(t2, s)) => t1 = t2

\* A call is inside its body on a session while a second call on the same
\* session waits for the lock.
C1_Witness ==
    \E s \in SessionIds : \E t1, t2 \in Tasks :
        /\ t1 # t2
        /\ InBody(t1, s)
        /\ pc[t2] \in {"adv_lock", "sub_lock"}
        /\ op[t2].sid = s

\* C4: whenever requires_human_input is false, submit_human_input fails
\* with "no human input is needed" (InvalidResumeState), whatever the role
\* and the content, and leaves the session's state, requires_human_input and
\* pending_input_role as they were.
C4_SubmitRejected ==
    [][\A t \in Tasks :
          (/\ pc[t] = "sub_body"
           /\ pc'[t] = "done"
           /\ ~sess[op[t].sid].requires_human_input)
          => (/\ res'[t] = "InvalidResumeState"
              /\ sess'[op[t].sid] = sess[op[t].sid])]_vars

\* A submit_human_input on a registered session that needed no input has
\* been answered with the error.
C4_Witness ==
    \E t \in Tasks : pc[t] = "done" /\ res[t] = "InvalidResumeState"

\* C6: in a session created with human role Judge, once the first
\* defendant_reply has completed and nothing else has been written (the
\* transcript is opening, statement, reply), requires_human_input is true and
\* pending_input_role is Judge.
C6_JudgeFlagAfterReply ==
    \A s \in sessions :
        (/\ sess[s].human_role = "Judge"
         /\ Len(sess[s].state.messages) = 3
         /\ sess[s].state.messages[3].name = "Defendant")
        => (/\ sess[s].requires_human_input
            /\ sess[s].pending_input_role = "Judge")

\* C7: in every quiescent state of a registered session,
\* requires_human_input is true with pending_input_role R exactly when the
\* executor is suspended at a node of role R.
C7_FlagIffSuspended ==
    \A s \in sessions :
        Quiescent(s) =>
            \A R \in CourtRole :
                (sess[s].requires_human_input /\ sess[s].pending_input_role = R)
                    <=> SuspendedFor(s, R)

\* C9: no quiescent state of a session with a human role is both not ended
\* and unable to progress: either advance changes the session, or a
\* submission is accepted.
C9_NeverStuck ==
    \A s \in sessions :
        (Quiescent(s) /\ sess[s].human_role # NoRole) =>
            \/ sess[s].state.phase = "Closing"
            \/ AdvanceOutcome(sess[s]).se # sess[s]
            \/ \E content \in Contents : SubmitOutcome(sess[s], content).res = "ok"

\* C10: the rounds stored in the state equals the number of passes the
\* session's runs have made through judge_should_continue.
C10_RoundsCountPasses ==
    \A s \in sessions : sess[s].state.rounds = hist[s].passes

\* C11: the third pass through judge_should_continue always goes to
\* judge_verdict: once a run has made three passes it is at judge_verdict or
\* over, so judge_summary never runs after a third pass and there is no
\* fourth pass.
C11_VerdictAtThirdPass ==
    run.passes >= 3 => run.node \in {"judge_verdict", "END"}

\* C12: a session created without a human role reaches the closing phase
\* within three debate rounds whatever the decision model answers: no such
\* debate is cut off by the executor's recursion limit, and none that ended
\* made more than three passes through judge_should_continue.
C12_PureAIEndsInThreeRounds ==
    /\ \A t \in Tasks : res[t] # "RecursionError"
    /\ \A s \in sessions :
          (sess[s].human_role = NoRole /\ sess[s].state.phase = "Closing")
              => hist[s].passes <= 3

\* C14: when the model has answered the decision prompt (rounds after the
\* increment is below 3), the run goes on whatever the answer is, to
\* judge_verdict exactly when the answer, trimmed and lower-cased, is "end",
\* and to judge_summary for every other answer, an unparsable one included.
C14_OnlyExactEndGoesToVerdict ==
    [][(/\ run.status = "running"
        /\ run.node = "judge_should_continue"
        /\ run'.answered)
       => (/\ run'.status = "running"
           /\ run'.node \in {"judge_verdict", "judge_summary"}
           /\ run'.node = "judge_verdict"
                <=> run'.response \in {<<"e", "n", "d">>,
                                       <<" ", "E", "N", "D", "\n">>})]_vars

\* An answer that is neither word has sent the run back to judge_summary.
C14_Witness ==
    /\ run.answered
    /\ run.response = <<"E", "n", "d", ".">>
    /\ run.status = "running"
    /\ run.node = "judge_summary"

\* C15: debate_start is the first node of a run and runs exactly once: the
\* run starts at it and never comes back to it; its own result is speaker
\* Plaintiff and phase Opening; and from then on, so also when the run
\* returns to create_session, the first message of the transcript is the
\* judge's opening announcement.
C15_DebateStartOnceAndFirst ==
    /\ run.status = "running" /\ run.steps = 0 => run.node = "debate_start"
    /\ run.steps >= 1 =>
          /\ run.starts = 1
          /\ run.node # "debate_start"
          /\ Len(run.st.messages) >= 1
          /\ run.st.messages[1] = ChatMsg("Judge", "opening")
    /\ run.steps = 1 =>
          /\ run.st.speaker = "Plaintiff"
          /\ run.st.phase = "Opening"
          /\ Len(run.st.messages) = 1

\* A whole debate has run to its end after debate_start.
C15_Witness ==
    /\ run.status = "done"
    /\ run.starts = 1
    /\ Len(run.st.messages) > 1

\* C16: once judge_verdict has completed and the phase is the closing one,
\* no step changes the session's state (messages, speaker, phase, rounds):
\* advance_debate answers with that same state, and submit_human_input is
\* refused.
C16_EndedStateIsFixed ==
    [][/\ \A s \in SessionIds :
            sess[s].state.phase = "Closing" => sess'[s].state = sess[s].state
       /\ \A t \in Tasks :
            (/\ pc[t] \in {"adv_body", "sub_body"}
             /\ pc'[t] = "done"
             /\ sess[op[t].sid].state.phase = "Closing")
            => (/\ sess'[op[t].sid] = sess[op[t].sid]
                /\ pc[t] = "adv_body" => res'[t] = "ok"
                /\ pc[t] = "sub_body" => res'[t] # "ok")]_vars

\* An advance_debate on an ended session has returned its state.
C16_Witness ==
    \E t \in Tasks :
        /\ pc[t] = "done"
        /\ res[t] = "ok"
        /\ op[t].sid \in sessions
        /\ sess[op[t].sid].state.phase = "Closing"
        /\ \E i \in 1..Len(sess[op[t].sid].state.messages) :
              sess[op[t].sid].state.messages[i].name = NoRole

\* C17: get_session, advance_debate, submit_human_input and end_session on
\* an id that is not in the registry fail with "session does not exist"
\* (SessionNotFound) and change no session; an end_session that succeeded has
\* removed the id, so every later call on it is such a call.
C17_UnknownIdNotFound ==
    [][\A t \in Tasks :
          /\ (/\ pc[t] = "idle"
              /\ pc'[t] \notin {"idle", "init_wait"}
              /\ op'[t].sid \notin sessions)
             => (/\ pc'[t] = "done"
                 /\ res'[t] = "SessionNotFound"
                 /\ UNCHANGED <<sessions, allocated, sess, lock, hist>>)
          /\ (pc[t] = "idle" /\ pc'[t] = "done" /\ res'[t] = "Ended")
             => (op'[t].sid \in sessions /\ op'[t].sid \notin sessions')]_vars

\* A call on the id of a session that was ended has been answered with
\* SessionNotFound.
C17_Witness ==
    \E t \in Tasks :
        /\ pc[t] = "done"
        /\ res[t] = "SessionNotFound"
        /\ op[t].sid \in allocated \ sessions
        /\ ~StateIsNone(sess[op[t].sid].state)

\* C18: while a session is suspended for its human role, its lock is free
\* whenever no call on it is in progress, and get_session can be answered at
\* once, whether or not the lock is held: a pending human turn never blocks a
\* read.
C18_PendingTurnBlocksNoRead ==
    \A s \in sessions :
        hist[s].pending_node # "END" =>
            /\ Quiescent(s) => LockFree(s)
            /\ \A t \in Tasks : pc[t] = "idle" => ENABLED GetSession(t, s)

\* get_session has been answered on a suspended session whose lock another
\* call holds.
C18_Witness ==
    \E s \in sessions : \E t, t2 \in Tasks :
        /\ hist[s].pending_node # "END"
        /\ pc[t] = "done" /\ res[t] = "GetOk" /\ op[t].sid = s
        /\ InBody(t2, s) /\ lock[s] = t2

\* C19: a call holding session A's lock never delays a call on another
\* session B: a call waits for a lock only when a call on the same session is
\* inside its body, and a waiting call whose session's lock is free can take
\* it.
C19_OtherSessionNotDelayed ==
    [][\A t \in Tasks :
          /\ (pc[t] = "idle" /\ pc'[t] \in {"adv_lock", "sub_lock"})
             => \E t2 \in Tasks \ {t} : InBody(t2, op'[t].sid)
          /\ (pc[t] \in {"adv_lock", "sub_lock"} /\ lock[op[t].sid] = NoTask)
             => ENABLED AcquireLock(t)]_vars

\* While create_session's run on session A is in flight under A's lock, an
\* advance_debate on another session B is inside its body.
C19_Witness ==
    \E t1, t2 \in Tasks :
        /\ pc[t1] = "init_wait"
        /\ lock[op[t1].sid] = t1
        /\ pc[t2] = "adv_body"
        /\ op[t2].sid # op[t1].sid

\* C20: the sweep removes a session only if no create_session,
\* advance_debate or submit_human_input has been made on it for longer than
\* the idle threshold: a session with such a call within the threshold is
\* not removed by the sweep.
C20_SweepOnlyIdleSessions ==
    [][\A s \in SessionIds :
          (/\ clock.sweeper = "due" /\ clock'.sweeper = "sleeping"
           /\ s \in sessions /\ s \notin sessions')
              => clock.now - hist[s].last_call > IdleThreshold]_vars

\* C22: a node that runs for its role (and debate_start, which always runs)
\* writes the fixed successor as the speaker: debate_start Plaintiff,
\* plaintiff_statement Defendant, defendant_reply Judge, judge_summary
\* Plaintiff, plaintiff_argue Defendant, defendant_argue Judge; judge_verdict
\* writes no speaker and sets the phase to Closing.
C22_FixedSuccessorSpeaker ==
    LET Successor(node) ==
            CASE node \in {"debate_start", "judge_summary"} -> "Plaintiff"
              [] node \in {"plaintiff_statement", "plaintiff_argue"} -> "Defendant"
              [] node \in {"defendant_reply", "defendant_argue"} -> "Judge"
    IN  (call.status = "returned" /\ call.out.kind = "update") =>
            IF call.node = "judge_verdict"
            THEN /\ "speaker" \notin DOMAIN call.out.upd
                 /\ call.after.speaker = call.st.speaker
                 /\ call.after.phase = "Closing"
            ELSE /\ "speaker" \in DOMAIN call.out.upd
                 /\ call.after.speaker = Successor(call.node)

C22_Witness ==
    /\ call.status = "returned"
    /\ call.node = "plaintiff_argue"
    /\ call.out.kind = "update"
    /\ call.st.speaker = "Plaintiff"
    /\ call.after.speaker = "Defendant"

\* C23: once defendant_reply has completed and until the verdict completes
\* (the run stands at judge_summary, plaintiff_argue, defendant_argue,
\* judge_should_continue or judge_verdict, running or suspended there), the
\* phase is CrossExamination.
C23_CrossExaminationAfterReply ==
    (/\ run.status \in {"running", "interrupted"}
     /\ run.node \in {"judge_summary", "plaintiff_argue", "defendant_argue",
                      "judge_should_continue", "judge_verdict"})
        => run.st.phase = "CrossExamination"

\* C24: for every role node and every state it is entered with as the
\* speaker's node, the update the human branch returns on resume and the
\* update the generated branch returns assign the same keys with the same
\* speaker and phase, and each appends one message; the two messages agree
\* in everything but their origin (kind) and content.
C24_HumanBranchLikeGenerated ==
    (/\ call.status = "returned"
     /\ NodeRole(call.node) # NoRole
     /\ call.st.speaker = NodeRole(call.node)
     /\ call.st.human_role = NodeRole(call.node)
     /\ call.resume # NoResume)
        => LET human == call.out
               gen == RunNodeWith(call.node,
                                  [call.st EXCEPT !.human_role = NoRole],
                                  NoResume)
           IN  /\ human.kind = "update" /\ gen.kind = "update"
               /\ DOMAIN human.upd = DOMAIN gen.upd
               /\ \A k \in DOMAIN human.upd \ {"messages"} :
                      human.upd[k] = gen.upd[k]
               /\ Len(human.upd.messages) = 1 /\ Len(gen.upd.messages) = 1
               /\ human.upd.messages[1].kind = "Human"
               /\ human.upd.messages[1].content = call.resume
               /\ gen.upd.messages[1].kind = "Chat"
               /\ human.upd.messages[1].name = gen.upd.messages[1].name

\* C25: a role node entered while the speaker is not the role it handles
\* returns the state it was given: no message is appended, the model is not
\* called, interrupt() is not called, and speaker, phase and rounds (the
\* whole state) are what they were.
C25_GuardLeavesStateUnchanged ==
    (/\ call.status = "returned"
     /\ NodeRole(call.node) # NoRole
     /\ call.st.speaker # NodeRole(call.node))
        => /\ call.out.kind = "same"
           /\ call.after = call.st
           /\ ~CallsModel(call.node, call.st)

C25_Witness ==
    /\ call.status = "returned"
    /\ call.node = "plaintiff_statement"
    /\ call.st.speaker = "Judge"
    /\ call.st.human_role = "Plaintiff"
    /\ call.resume # NoResume
    /\ call.st.messages # <<>>
    /\ call.after = call.st

\* C26: across every step of every operation (create, advance, submit, get,
\* end, successful or failed) the transcript of a session before the step is
\* a prefix of its transcript after the step.
C26_TranscriptOnlyGrows ==
    [][\A s \in SessionIds :
          LET before == sess[s].state.messages
              after == sess'[s].state.messages
          IN  /\ Len(before) <= Len(after)
              /\ SubSeq(after, 1, Len(before)) = before]_vars

C26_Witness ==
    \E s \in sessions, t1, t2 \in Tasks :
        /\ Len(sess[s].state.messages) > 0
        /\ pc[t1] = "done" /\ op[t1].sid = s /\ res[t1] = "ok"
        /\ pc[t2] = "done" /\ op[t2].sid = s /\ res[t2] = "InvalidResumeState"

\* C29: every session in the registry has been initialized (its state is
\* set); a session enters the registry only at the successful return of its
\* initialize; no call is answered that the session is not initialized; and
\* a create whose initialization fails leaves the registry as it was.
C29_RegisteredIsInitialized ==
    [][/\ \A s \in sessions' : ~StateIsNone(sess'[s].state)
       /\ \A s \in sessions' \ sessions :
              \E t \in Tasks : /\ pc[t] = "init_wait" /\ op[t].sid = s
                               /\ pc'[t] = "done" /\ res'[t] = "created"
       /\ \A t \in Tasks :
              /\ res'[t] # "NotInitialized"
              /\ (pc[t] = "init_wait" /\ res'[t] \in {"ModelError", "RecursionError"})
                    => sessions' = sessions]_vars

C29_Witness ==
    \E t1, t2 \in Tasks :
        /\ pc[t1] = "done" /\ res[t1] = "ModelError"
        /\ pc[t2] = "done" /\ res[t2] = "GetOk" /\ op[t2].sid \in sessions
        /\ \A s \in SessionIds \ sessions : StateIsNone(sess[s].state)

C27_DestructionSerializedWithTurns ==
    [][\A s \in SessionIds :
          /\ (\E t \in Tasks : pc[t] \in {"adv_body", "sub_body"} /\ op[t].sid = s)
                => /\ s \in sessions => s \in sessions'
                   /\ \A o \in websocket_connections[s] :
                          websockets[o].state = "open"
                              => websockets'[o].state # "closed"
          /\ (\E d \in Destroyers : cleanup[d].active /\ cleanup[d].sid = s)
                => \A t \in Tasks :
                       ~(/\ pc'[t] \in {"adv_body", "sub_body"}
                         /\ pc[t] \notin {"adv_body", "sub_body"}
                         /\ op'[t].sid = s)]_vars

\* C28: a cleanup_session that has begun on a registered session ends with
\* the session out of the registry and none of the websockets attached to
\* it left open, whatever websockets are added to or discarded from the
\* session while a close is awaited.
C28_DestructionCompletes ==
    [][\A t \in Tasks :
          (/\ pc[t] \in {"idle", "end_closing"}
           /\ pc'[t] = "done"
           /\ res'[t] \in {"Ended", "EndFailed"})
              => /\ op'[t].sid \notin sessions'
                 /\ \A o \in websocket_connections'[op'[t].sid] :
                        websockets'[o].state # "open"]_vars

\* C21: a registered session whose last activity is more than the threshold
\* old is eventually removed from the registry by the sweep, whatever
\* happens while the sweep destroys it or another expired session.
C21_IdleSessionsEventuallySwept ==
    \A s \in SessionIds :
        (s \in sessions /\ Expired(s)) ~> (s \notin sessions)

\* C31: in every state of a run the senders of the transcript follow the
\* cycle Judge, Plaintiff, Defendant: the i-th message, counting from 0, is
\* sent by the role i mod 3 selects (so no role speaks twice in a row), and
\* a role node is never entered while the speaker is another role (its
\* guard never fires).
C31_SendersFollowTheCycle ==
    LET Cycle == <<"Judge", "Plaintiff", "Defendant">>
    IN  /\ \A i \in 1..Len(run.st.messages) :
               run.st.messages[i].name = Cycle[((i - 1) % 3) + 1]
        /\ (run.status = "running" /\ NodeRole(run.node) # NoRole)
               => run.st.speaker = NodeRole(run.node)

=============================================================================
